---- MODULE Spec2Model ----
(***************************************************************************)
(* NeutroWater: Monte Carlo transport of neutrons in a cylindrical tank.   *)
(* The model follows src/src/neutrowater: the Driver (DiffusingNeutrons),  *)
(* its chunked parallel diffuse call, the per-neutron step loop, the       *)
(* Neutron history lists, the Tank containment test and the Measurer.      *)
(*                                                                         *)
(* Positions are integer 3-vectors, energies are integers in model units,  *)
(* an energy-loss fraction is a pair <<numerator, denominator>>.  Every    *)
(* random draw of the code is a nondeterministic choice from a small set.  *)
(***************************************************************************)
EXTENDS Integers, Sequences, FiniteSets, TLC

\* ------------------------------------------------------------------ bounds
\* Largest population size Parameters.nNeutrons of a run.
MaxNeutrons == 2
\* Cap on the cumulative collision counter (sum of the diffuse arguments).
MaxTotal == 2
\* Cap on the number of diffuse calls of a run.
MaxCalls == 2
\* Flight distances are drawn from 1..MaxDist.
MaxDist == 2
\* Machines have 1..MaxCpu cores.
MaxCpu == 4
\* Directly called functions get coordinates in -MaxCoord..MaxCoord.
MaxCoord == 2
\* Tabulated cross sections take the values 1..MaxSigma (barns).
MaxSigma == 3
\* A molecule holds 1..MaxAtoms atoms of each nuclide.
MaxAtoms == 2
\* The chunking of a population is examined for 1..MaxPopulation neutrons and
\* budgets of 1..MaxPopulation worker processes.
MaxPopulation == 5
\* Energy breakpoints of an angular table are drawn from 1..MaxBreak.
MaxBreak == 4
\* A rejection sampler is followed for at most MaxDraws candidate draws.
MaxDraws == 3

VARIABLES
    cpu_count,    \* multiprocessing.cpu_count() of the machine
    tank,         \* DiffusingNeutrons.tank
    neutrons,     \* DiffusingNeutrons.neutrons, the stored population
    nCollisions,  \* DiffusingNeutrons.nCollisions
    pc,           \* where the caller of diffuse is: "idle" or "running"
    workers,      \* the chunk workers of the running diffuse call
    done,         \* indices of the chunks that have returned, in completion order
    call,         \* history: the current or last diffuse call
    log,          \* history: calls made and the arguments of those that returned
    probe         \* a direct call of one function: its name, arguments, result

vars == <<cpu_count, tank, neutrons, nCollisions, pc, workers, done, call, log, probe>>

\* ----------------------------------------------------------------- helpers
Last(s) == s[Len(s)]

Min(a, b) == IF a < b THEN a ELSE b

Abs(a) == IF a < 0 THEN 0 - a ELSE a

IsPrefix(s, t) == Len(s) <= Len(t) /\ SubSeq(t, 1, Len(s)) = s

\* position + distance * direction on 3-vectors
VAdd(a, b) == <<a[1] + b[1], a[2] + b[2], a[3] + b[3]>>

VScale(l, d) == <<l * d[1], l * d[2], l * d[3]>>

\* Python's a // b for b # 0 (rounds towards minus infinity).
FloorDiv(a, b) == IF b > 0 THEN a \div b ELSE (0 - a) \div (0 - b)

\* energy * energy_loss_frac, the fraction being <<numerator, denominator>>
MulFrac(e, f) == (e * f[1]) \div f[2]

\* frac == 1
IsOne(f) == f[1] = f[2]

\* ------------------------------------------------------- inputs and draws
\* random_direction() and the scattering direction of a collision
Dirs == {<<1, 0, 0>>, <<0, 0, 1>>}

\* l = -mfp * log(random())
Dists == 1..MaxDist

\* Parameters.radius_tank, height_tank, position_tank: the neutrons start at
\* the origin, which is inside the first tank and outside the second.
Tanks ==
    { [radius |-> 2, height |-> 4, position |-> <<0, 0, 0>>],
      [radius |-> 2, height |-> 4, position |-> <<3, 0, 0>>] }

\* initial energies drawn from the spectrum
InitialEnergies == {4}

\* 10 * kT: below it a collision is thermal
TenKT == 3

\* |v_n_new|^2 / |v_n|^2 of an elastic collision; it is 1 when the scattered
\* velocity has the norm of the incident one.  From the initial energy 1/2
\* leads below 10 kT and 3/4 does not.
ElasticFracs == {<<1, 2>>, <<3, 4>>, <<1, 1>>}

\* MaxwellBoltzmann.thermal_energy()
ThermalEnergies == {1, 2}

NoDirection == <<0, 0, 0>>

\* -------------------------------------------------------------------- Tank
\* Mutant of Inside: the wall and the end caps belong to the tank.
InsideClosed(t, position) ==
    LET dx == position[1] - t.position[1]
        dy == position[2] - t.position[2]
    IN  /\ t.radius >= 0
        /\ dx * dx + dy * dy <= t.radius * t.radius
        /\ 2 * Abs(position[3] - t.position[3]) <= t.height

\* norm(position[:2] - center[:2]) < radius and |z - center_z| < height / 2
Inside(t, position) ==
    LET dx == position[1] - t.position[1]
        dy == position[2] - t.position[2]
    IN  /\ t.radius > 0
        /\ dx * dx + dy * dy < t.radius * t.radius
        /\ 2 * Abs(position[3] - t.position[3]) < t.height

\* ------------------------------------------------------------------ Neutron
\* kinds and id are history fields: the kind of each collision undergone and
\* the index the neutron was constructed at.
Neutron(initial_energy, initial_position, i) ==
    [ positions |-> <<initial_position>>,
      energies  |-> <<initial_energy>>,
      direction |-> NoDirection,
      kinds     |-> <<>>,
      id        |-> i ]

Position(n) == Last(n.positions)

Energy(n) == Last(n.energies)

Histories(n) == [positions |-> n.positions, energies |-> n.energies]

\* Mutant of Travel: the flight starts from the first recorded position.
TravelFromStart(n, distance) ==
    [n EXCEPT !.positions = Append(@, VAdd(n.positions[1], VScale(distance, n.direction)))]

\* Mutant of Travel: the flight overwrites the last position.
TravelInPlace(n, distance) ==
    [n EXCEPT !.positions[Len(n.positions)] =
                 VAdd(Position(n), VScale(distance, n.direction))]

Travel(n, distance) ==
    [n EXCEPT !.positions = Append(@, VAdd(Position(n), VScale(distance, n.direction)))]

\* Mutant of Collide: the fraction is applied to the first recorded energy.
CollideFromStart(n, energy_loss_frac, direction) ==
    [n EXCEPT !.direction = direction,
              !.energies = Append(@, MulFrac(n.energies[1], energy_loss_frac))]

\* Mutant of Collide: a collision that keeps the energy records nothing.
CollideSkippingUnchanged(n, energy_loss_frac, direction) ==
    IF IsOne(energy_loss_frac)
    THEN [n EXCEPT !.direction = direction]
    ELSE [n EXCEPT !.direction = direction,
                   !.energies = Append(@, MulFrac(Energy(n), energy_loss_frac))]

Collide(n, energy_loss_frac, direction) ==
    [n EXCEPT !.direction = direction,
              !.energies = Append(@, MulFrac(Energy(n), energy_loss_frac))]

\* Mutant of Neutrons: the population is built in reverse input order.
NeutronsReversed(energies, positions) ==
    LET n == Min(Len(energies), Len(positions))
    IN  [i \in 1..n |-> Neutron(energies[n + 1 - i], positions[n + 1 - i], i)]

\* Neutrons(energies, positions): zip of the two sequences, in input order
Neutrons(energies, positions) ==
    [i \in 1..Min(Len(energies), Len(positions)) |-> Neutron(energies[i], positions[i], i)]

\* ---------------------------------------------------------------- Collision
\* MaxwellBoltzmann.__init__(m, T = 293): the default temperature in kelvin
DefaultTemperature == 293

\* MaxwellBoltzmann(T): the sampler of thermal energies at temperature T
MaxwellBoltzmann(T) == [T |-> T]

\* elastic_frac stands for the kinematics fixed in __post_init__, where the
\* collision also builds its own sampler, self.mw = MaxwellBoltzmann().
Collision(initial_E, absorption, thermal, elastic_frac) ==
    [ initial_E |-> initial_E, absorption |-> absorption,
      thermal |-> thermal, elastic_frac |-> elastic_frac,
      mw |-> MaxwellBoltzmann(DefaultTemperature) ]

\* Mutant of EnergyLossFrac: the thermal branch returns the relative change
\* of the energy instead of the ratio of the new energy to the old one.
EnergyLossFracRelative(collision, thermal_energy) ==
    IF collision.absorption THEN <<1, 1>>
    ELSE IF collision.thermal
         THEN <<thermal_energy - collision.initial_E, collision.initial_E>>
    ELSE collision.elastic_frac

\* The property energy_loss_frac; thermal_energy is the sample this
\* evaluation of the property draws.
EnergyLossFrac(collision, thermal_energy) ==
    IF collision.absorption THEN <<1, 1>>
    ELSE IF collision.thermal THEN <<thermal_energy, collision.initial_E>>
    ELSE collision.elastic_frac

CollisionKind(collision) ==
    IF collision.absorption THEN "absorbed"
    ELSE IF collision.thermal THEN "thermal"
    ELSE "elastic"

\* ------------------------------------------------- the per-neutron step loop
\* Mutant of Iterations: the loop body runs at least once.
IterationsAtLeastOnce(k) == IF k > 0 THEN k ELSE 1

\* Mutant of Iterations: the loop runs one pass more than requested.
IterationsOneMore(k) == IF k > 0 THEN k + 1 ELSE 0

\* for _ in range(nCollisions): the number of passes of the loop
Iterations(k) == IF k > 0 THEN k ELSE 0

\* Mutant of CanStep: no containment check.
CanStepAlways(n) == TRUE

\* the containment check that opens each pass of the loop
CanStep(n) == Inside(tank, Position(n))

\* Mutant of Iteration: containment is checked again after the flight, and a
\* flight that left the tank is not followed by a collision.
IterationRechecked(n, l, absorption, elastic_frac, thermal_energy, direction) ==
    LET flown     == Travel(n, l)
        collision == Collision(Energy(flown), absorption,
                               Energy(flown) < TenKT, elastic_frac)
        collided  == Collide(flown, EnergyLossFrac(collision, thermal_energy),
                             direction)
    IN  IF ~Inside(tank, Position(flown)) THEN flown
        ELSE [collided EXCEPT !.kinds = Append(@, CollisionKind(collision))]

\* One pass of the loop body after the containment check: the flight, then
\* the collision at the position reached, whatever that position is.
Iteration(n, l, absorption, elastic_frac, thermal_energy, direction) ==
    LET flown     == Travel(n, l)
        collision == Collision(Energy(flown), absorption,
                               Energy(flown) < TenKT, elastic_frac)
        collided  == Collide(flown, EnergyLossFrac(collision, thermal_energy),
                             direction)
    IN  [collided EXCEPT !.kinds = Append(@, CollisionKind(collision))]

\* if collision.energy_loss_frac == 1: break.  The property is evaluated
\* again here, so a thermal collision draws a fresh thermal energy.
BreaksLoop(n, absorption, elastic_frac, thermal_energy) ==
    IsOne(EnergyLossFrac(
        Collision(Energy(n), absorption, Energy(n) < TenKT, elastic_frac),
        thermal_energy))

\* ---------------------------------------------------------------- chunking
NumProcesses == cpu_count - 2

\* Mutant of ChunkSize: the quotient is rounded down.
ChunkSizeFloor(n, p) == FloorDiv(n, p)

\* (len(self.neutrons) + num_processes - 1) // num_processes, for p # 0
ChunkSize(n, p) == FloorDiv(n + p - 1, p)

\* range(0, n, size) for size # 0, as 0-based start indices
ChunkStarts(n, size) ==
    IF size > 0 THEN {i \in 0..(n - 1) : i % size = 0} ELSE {}

\* ZeroDivisionError at the chunk size, ValueError of range() for a zero step,
\* ValueError of multiprocessing.Pool for fewer than one process
DispatchRaises(n, p) ==
    IF p = 0 THEN TRUE
    ELSE IF ChunkSize(n, p) = 0 THEN TRUE
    ELSE p < 1

\* self.neutrons[i : i + chunk_size] for the c-th start (c = 1, 2, ...)
Chunk(population, size, c) ==
    SubSeq(population, (c - 1) * size + 1, Min(c * size, Len(population)))

Chunks(population, p) ==
    LET size == ChunkSize(Len(population), p)
    IN  [c \in 1..Cardinality(ChunkStarts(Len(population), size)) |->
            Chunk(population, size, c)]

RECURSIVE Flatten(_)
Flatten(seqs) ==
    IF seqs = <<>> THEN <<>> ELSE Head(seqs) \o Flatten(Tail(seqs))

\* Mutant of Reassemble: the chunks are taken in the order they finished.
ReassembleAsCompleted(ws, completion) ==
    Flatten([c \in 1..Len(completion) |-> ws[completion[c]].chunk])

\* [neutron for chunk in results for neutron in chunk]; results holds the
\* chunks in the order they were submitted, whatever order they finished in.
Reassemble(ws, completion) == Flatten([c \in 1..Len(ws) |-> ws[c].chunk])

\* ------------------------------------------------------------------- state
\* no direct call is being made
NoProbe == [fn |-> "none", args |-> <<>>, returned |-> FALSE, result |-> <<>>]

NoCall ==
    [ k |-> 0, pre |-> <<>>, preN |-> 0, outcome |-> "none",
      completion |-> <<>>, workerRaised |-> FALSE ]

Init ==
    /\ cpu_count \in 1..MaxCpu
    /\ tank \in Tanks
    /\ \E n \in 0..MaxNeutrons :
         \E energies \in [1..n -> InitialEnergies] :
            neutrons = Neutrons(energies, [i \in 1..n |-> <<0, 0, 0>>])
    /\ nCollisions = 0
    /\ pc = "idle"
    /\ workers = <<>>
    /\ done = <<>>
    /\ call = NoCall
    /\ log = [calls |-> 0, returned |-> 0]
    /\ probe = NoProbe

Returned(c) == \E i \in 1..Len(done) : done[i] = c

Active(c) ==
    /\ pc = "running"
    /\ c \in 1..Len(workers)
    /\ ~workers[c].raised
    /\ ~Returned(c)

Current(w) == w.chunk[w.j]

\* ----------------------------------------------------------------- diffuse
\* diffuse(k) up to the dispatch of the chunks to the workers
DiffuseCall(k) ==
    /\ pc = "idle"
    /\ log.calls < MaxCalls
    /\ nCollisions + k <= MaxTotal
    /\ ~DispatchRaises(Len(neutrons), NumProcesses)
    /\ nCollisions' = nCollisions + k
    /\ workers' = [c \in 1..Len(Chunks(neutrons, NumProcesses)) |->
                     [ chunk |-> Chunks(neutrons, NumProcesses)[c], j |-> 1,
                       left |-> 0, phase |-> "begin", raised |-> FALSE,
                       cut |-> FALSE ]]
    /\ done' = <<>>
    /\ pc' = "running"
    /\ call' = [ k |-> k, pre |-> neutrons, preN |-> nCollisions,
                 outcome |-> "running", completion |-> <<>>,
                 workerRaised |-> FALSE ]
    /\ log' = [log EXCEPT !.calls = @ + 1]
    /\ UNCHANGED <<probe, cpu_count, tank, neutrons>>

\* diffuse(k) raising while it computes the chunks or opens the pool
DiffuseDispatchError(k) ==
    /\ pc = "idle"
    /\ log.calls < MaxCalls
    /\ nCollisions + k <= MaxTotal
    /\ DispatchRaises(Len(neutrons), NumProcesses)
    /\ nCollisions' = nCollisions + k
    /\ call' = [ k |-> k, pre |-> neutrons, preN |-> nCollisions,
                 outcome |-> "raised", completion |-> <<>>,
                 workerRaised |-> FALSE ]
    /\ log' = [log EXCEPT !.calls = @ + 1]
    /\ UNCHANGED <<probe, cpu_count, tank, neutrons, pc, workers, done>>

\* _diffuse_neutron begins on the next neutron of chunk c
EnterNeutron(c) ==
    /\ Active(c)
    /\ workers[c].phase = "begin"
    /\ workers[c].j <= Len(workers[c].chunk)
    /\ \E d \in Dirs :
         workers' = [workers EXCEPT
                       ![c].chunk[workers[c].j].direction = d,
                       ![c].left = Iterations(call.k),
                       ![c].cut = FALSE,
                       ![c].phase = "loop"]
    /\ UNCHANGED <<probe, cpu_count, tank, neutrons, nCollisions, pc, done, call, log>>

\* one pass of the loop on the current neutron of chunk c
LoopStep(c) ==
    /\ Active(c)
    /\ workers[c].phase = "loop"
    /\ workers[c].left > 0
    /\ CanStep(Current(workers[c]))
    /\ \E l \in Dists, absorption \in BOOLEAN, ef \in ElasticFracs,
          eth1 \in ThermalEnergies, eth2 \in ThermalEnergies, d \in Dirs :
         workers' = [workers EXCEPT
                       ![c].chunk[workers[c].j] =
                           Iteration(Current(workers[c]), l, absorption, ef, eth1, d),
                       ![c].left =
                           IF BreaksLoop(Current(workers[c]), absorption, ef, eth2)
                           THEN 0 ELSE @ - 1,
                       ![c].cut =
                           \/ @
                           \/ /\ workers[c].left > 1
                              /\ BreaksLoop(Current(workers[c]), absorption, ef, eth2)]
    /\ UNCHANGED <<probe, cpu_count, tank, neutrons, nCollisions, pc, done, call, log>>

\* the loop ends (passes used up, break after a collision, or break at the
\* containment check) and _diffuse_neutron returns the neutron.  Every call
\* of _diffuse_neutron overwrites neutron.direction before reading it, so
\* the direction a returned neutron carries is never read: it is not kept.
ReturnNeutron(c) ==
    /\ Active(c)
    /\ workers[c].phase = "loop"
    /\ workers[c].left = 0 \/ ~CanStep(Current(workers[c]))
    /\ workers' = [workers EXCEPT ![c].chunk[workers[c].j].direction = NoDirection,
                                  ![c].j = @ + 1, ![c].left = 0, ![c].cut = FALSE,
                                  ![c].phase = "begin"]
    /\ UNCHANGED <<probe, cpu_count, tank, neutrons, nCollisions, pc, done, call, log>>

\* _diffuse_chunk returns its list
ChunkReturn(c) ==
    /\ Active(c)
    /\ workers[c].phase = "begin"
    /\ workers[c].j > Len(workers[c].chunk)
    /\ done' = Append(done, c)
    /\ UNCHANGED <<probe, cpu_count, tank, neutrons, nCollisions, pc, workers, call, log>>

\* _diffuse_neutron raises on the next neutron of chunk c: an exception
\* inside the worker
WorkerRaise(c) ==
    /\ Active(c)
    /\ workers[c].phase = "begin"
    /\ workers[c].j <= Len(workers[c].chunk)
    /\ workers' = [workers EXCEPT ![c].raised = TRUE]
    /\ call' = [call EXCEPT !.workerRaised = TRUE]
    /\ UNCHANGED <<probe, cpu_count, tank, neutrons, nCollisions, pc, done, log>>

\* Mutant of DiffuseJoin: the chunks of failed workers are left out and the
\* call returns.
DiffuseJoinDroppingFailures ==
    /\ pc = "running"
    /\ \A c \in 1..Len(workers) : Returned(c) \/ workers[c].raised
    /\ neutrons' = Flatten([i \in 1..Len(done) |-> workers[done[i]].chunk])
    /\ pc' = "idle"
    /\ workers' = <<>>
    /\ done' = <<>>
    /\ call' = [call EXCEPT !.outcome = "returned", !.completion = done]
    /\ log' = [log EXCEPT !.returned = @ + call.k]
    /\ UNCHANGED <<probe, cpu_count, tank, nCollisions>>

\* every chunk has returned: the results replace the population
DiffuseJoin ==
    /\ pc = "running"
    /\ \A c \in 1..Len(workers) : Returned(c)
    /\ neutrons' = Reassemble(workers, done)
    /\ pc' = "idle"
    /\ workers' = <<>>
    /\ done' = <<>>
    /\ call' = [call EXCEPT !.outcome = "returned", !.completion = done]
    /\ log' = [log EXCEPT !.returned = @ + call.k]
    /\ UNCHANGED <<probe, cpu_count, tank, nCollisions>>

\* a worker raised: the exception leaves process_map and diffuse
DiffuseAbort ==
    /\ pc = "running"
    /\ \E c \in 1..Len(workers) : workers[c].raised
    /\ pc' = "idle"
    /\ workers' = <<>>
    /\ done' = <<>>
    /\ call' = [call EXCEPT !.outcome = "raised", !.completion = done]
    /\ UNCHANGED <<probe, cpu_count, tank, neutrons, nCollisions, log>>

\* ---------------------------------------------------------------- Measurer
\* Measurer(sim): self.neutrons is the population object the simulation holds
\* when the Measurer is built; nCollisions and tank are read through self.sim.
Measurer(population) == [neutrons |-> population]

RECURSIVE Sum(_)
Sum(s) == IF s = <<>> THEN 0 ELSE Head(s) + Sum(Tail(s))

\* Measurer.positions and Measurer.energies: the history lists of the
\* population the Measurer holds
MeasuredPositions(m) == [i \in 1..Len(m.neutrons) |-> m.neutrons[i].positions]

MeasuredEnergies(m) == [i \in 1..Len(m.neutrons) |-> m.neutrons[i].energies]

number_escaped(m) ==
    Sum([i \in 1..Len(m.neutrons) |->
            IF ~Inside(tank, Position(m.neutrons[i])) THEN 1 ELSE 0])

number_absorbed(m) ==
    Sum([i \in 1..Len(m.neutrons) |->
            IF /\ Len(m.neutrons[i].positions) < nCollisions
               /\ Inside(tank, Position(m.neutrons[i]))
            THEN 1 ELSE 0])

\* ----------------------------------------------------------- specification
Next ==
    \/ \E k \in 0..MaxTotal : DiffuseCall(k)
    \/ \E k \in 0..MaxTotal : DiffuseDispatchError(k)
    \/ \E c \in 1..Len(workers) : EnterNeutron(c)
    \/ \E c \in 1..Len(workers) : LoopStep(c)
    \/ \E c \in 1..Len(workers) : ReturnNeutron(c)
    \/ \E c \in 1..Len(workers) : ChunkReturn(c)
    \/ \E c \in 1..Len(workers) : WorkerRaise(c)
    \/ DiffuseJoin
    \/ DiffuseAbort

Spec == Init /\ [][Next]_vars

\* ------------------------------------------------------------ direct calls
\* A function called on its own, as the unit tests call it: UnitInit draws the
\* object and the arguments, one action per function makes the call.
Probe(fn, args) == [fn |-> fn, args |-> args, returned |-> FALSE, result |-> <<>>]

Return(result) == [probe EXCEPT !.returned = TRUE, !.result = result]

Calls(fn) == probe.fn = fn /\ ~probe.returned

Called(fn) == probe.fn = fn /\ probe.returned

UnitPositions ==
    {<<x, y, z>> : x \in -MaxCoord..MaxCoord, y \in -MaxCoord..MaxCoord,
                   z \in -MaxCoord..MaxCoord}

\* Tank(radius, height, position)
UnitTanks ==
    [radius : 0..MaxCoord, height : 1..(2 * MaxCoord),
     position : {<<0, 0, 0>>, <<1, 0, -1>>}]

\* the Driver is not used by a direct call
NoDriver ==
    /\ nCollisions = 0
    /\ pc = "idle"
    /\ workers = <<>>
    /\ done = <<>>
    /\ call = NoCall
    /\ log = [calls |-> 0, returned |-> 0]

\* no population is involved in the call
NoPopulation == cpu_count = 1 /\ neutrons = <<>>

\* tank.inside(position)
InitInside ==
    /\ NoPopulation
    /\ tank \in UnitTanks
    /\ probe \in {Probe("inside", [position |-> p]) : p \in UnitPositions}

CallInside ==
    /\ Calls("inside")
    /\ probe' = Return(Inside(tank, probe.args.position))
    /\ UNCHANGED <<cpu_count, tank, neutrons, nCollisions, pc, workers, done, call, log>>

\* ------------------------------------------------- cross-section processors
\* The tables of the nuclides, read at the energy of the call: one value per
\* interpolater, exp(f(log(energy))), which is positive.
CrossSections(n) == [1..n -> 1..MaxSigma]

\* AbsorptionProcessor.__init__: the scattering and the absorption data are
\* interleaved, scattering first.
Interleave(scattering_data, absorption_data) ==
    [i \in 1..(2 * Min(Len(scattering_data), Len(absorption_data))) |->
        IF i % 2 = 1 THEN scattering_data[(i + 1) \div 2]
        ELSE absorption_data[i \div 2]]

\* AbsorptionProcessor.get_absorption_rates: cross_sections[i + 1] /
\* cross_sections[i] for i in range(0, len, 2); a quotient is the pair
\* <<numerator, denominator>>.
get_absorption_rates(cross_sections) ==
    [j \in 1..((Len(cross_sections) + 1) \div 2) |->
        <<cross_sections[2 * j], cross_sections[2 * j - 1]>>]

InitAbsorptionRates ==
    /\ NoPopulation
    /\ tank \in Tanks
    /\ \E n \in 1..2 :
         probe \in {Probe("get_absorption_rates",
                          [scattering_data |-> sd, absorption_data |-> ad]) :
                       sd \in CrossSections(n), ad \in CrossSections(n)}

CallAbsorptionRates ==
    /\ Calls("get_absorption_rates")
    /\ probe' = Return(get_absorption_rates(
                    Interleave(probe.args.scattering_data, probe.args.absorption_data)))
    /\ UNCHANGED <<cpu_count, tank, neutrons, nCollisions, pc, workers, done, call, log>>

\* Mutant of get_ratio: the atom counts are left out of the total.
get_ratioUnweightedTotal(cross_sections, nMolecules) ==
    << cross_sections[1] * nMolecules[1],
       Sum([i \in 1..Len(cross_sections) |-> cross_sections[i]]) >>

\* TotalProcessor.get_ratio: cross_sections[0] * nMolecules[0] /
\* sum(nMolecules[i] * cross_sections[i])
get_ratio(cross_sections, nMolecules) ==
    << cross_sections[1] * nMolecules[1],
       Sum([i \in 1..Len(cross_sections) |-> nMolecules[i] * cross_sections[i]]) >>

InitRatio ==
    /\ NoPopulation
    /\ tank \in Tanks
    /\ \E n \in 1..2 :
         probe \in {Probe("get_ratio", [total_data |-> td, nMolecules |-> nm]) :
                       td \in CrossSections(n), nm \in [1..n -> 1..MaxAtoms]}

CallRatio ==
    /\ Calls("get_ratio")
    /\ probe' = Return(get_ratio(probe.args.total_data, probe.args.nMolecules))
    /\ UNCHANGED <<cpu_count, tank, neutrons, nCollisions, pc, workers, done, call, log>>


\* ------------------------------------------------------ Neutron, directly
\* sequences of 1..n elements of S
SeqsUpTo(S, n) == UNION {[1..m -> S] : m \in 1..n}

UnitEnergies == {2, 4}

UnitStarts == {<<0, 0, 0>>, <<1, -1, MaxCoord>>}

UnitDirs == Dirs \cup {<<0, -1, 0>>}

\* energy-loss fractions below, equal to and above 1
UnitFracs == {<<1, 2>>, <<1, 1>>, <<3, 2>>}

\* neutrons with one or two recorded positions and energies
UnitNeutrons ==
    {[positions |-> ps, energies |-> es, direction |-> d, kinds |-> <<>>, id |-> 1] :
        ps \in SeqsUpTo(UnitStarts, 2), es \in SeqsUpTo(UnitEnergies, 2), d \in UnitDirs}

InitTravel ==
    /\ NoPopulation
    /\ tank \in Tanks
    /\ probe \in {Probe("travel", [neutron |-> n, distance |-> l]) :
                     n \in UnitNeutrons, l \in Dists}

CallTravel ==
    /\ Calls("travel")
    /\ probe' = Return(Travel(probe.args.neutron, probe.args.distance))
    /\ UNCHANGED <<cpu_count, tank, neutrons, nCollisions, pc, workers, done, call, log>>

InitCollide ==
    /\ NoPopulation
    /\ tank \in Tanks
    /\ probe \in {Probe("collide", [neutron |-> n, energy_loss_frac |-> f, direction |-> d]) :
                     n \in UnitNeutrons, f \in UnitFracs, d \in UnitDirs}

CallCollide ==
    /\ Calls("collide")
    /\ probe' = Return(Collide(probe.args.neutron, probe.args.energy_loss_frac,
                               probe.args.direction))
    /\ UNCHANGED <<cpu_count, tank, neutrons, nCollisions, pc, workers, done, call, log>>

InitNeutrons ==
    /\ NoPopulation
    /\ tank \in Tanks
    /\ \E n \in 0..(MaxNeutrons + 1) :
         probe \in {Probe("Neutrons", [energies |-> es, positions |-> ps]) :
                       es \in [1..n -> UnitEnergies], ps \in [1..n -> UnitStarts]}

CallNeutrons ==
    /\ Calls("Neutrons")
    /\ probe' = Return(Neutrons(probe.args.energies, probe.args.positions))
    /\ UNCHANGED <<cpu_count, tank, neutrons, nCollisions, pc, workers, done, call, log>>



\* ------------------------------------------- the chunking step of diffuse
\* diffuse up to the creation of the pool: the population of the Driver is
\* split for num_processes = cpu_count - 2 workers.
InitDispatch ==
    /\ cpu_count \in 3..(MaxPopulation + 2)
    /\ tank \in Tanks
    /\ \E n \in 1..MaxPopulation :
         neutrons = Neutrons([i \in 1..n |-> 4], [i \in 1..n |-> <<0, 0, 0>>])
    /\ probe = Probe("chunks", <<>>)

DispatchChunks ==
    /\ Calls("chunks")
    /\ ~DispatchRaises(Len(neutrons), NumProcesses)
    /\ probe' = Return(Chunks(neutrons, NumProcesses))
    /\ UNCHANGED <<cpu_count, tank, neutrons, nCollisions, pc, workers, done, call, log>>

\* ---------------------------------------- the collision a Driver constructs
\* Parameters.temperature, in kelvin
Temperatures == {DefaultTemperature, DefaultTemperature + 300}

\* DiffusingNeutrons.kT, in units of the Boltzmann constant
kT(temperature) == temperature

\* The part of DiffusingNeutrons.__init__ that depends on the temperature.
Driver(p) == [kT |-> kT(p.temperature), mw |-> MaxwellBoltzmann(p.temperature)]

\* A Driver is built for a temperature and constructs the collision of a
\* step for a neutron of the given energy.
InitCollision ==
    /\ NoPopulation
    /\ tank \in Tanks
    /\ probe \in {Probe("Collision", [temperature |-> T, energy |-> E]) :
                     T \in Temperatures, E \in {4, 10 * DefaultTemperature + 4}}

CallCollision ==
    /\ Calls("Collision")
    /\ \E absorption \in BOOLEAN, ef \in ElasticFracs :
         LET sim == Driver([temperature |-> probe.args.temperature])
         IN  probe' = Return([sim |-> sim,
                              collision |-> Collision(probe.args.energy, absorption,
                                                      probe.args.energy < 10 * sim.kT, ef)])
    /\ UNCHANGED <<cpu_count, tank, neutrons, nCollisions, pc, workers, done, call, log>>

\* ------------------------------- the weights a step of the Driver applies
\* the default of the parameter nMolecules of get_mfp and get_ratio
DefaultMolecules == <<2, 1>>

\* TotalProcessor.get_mfp: 1 / sum(nMolecules[i] * n * cs), in units of 1 / n
get_mfp(cross_sections, nMolecules) ==
    << 1, Sum([i \in 1..Len(cross_sections) |-> nMolecules[i] * cross_sections[i]]) >>

\* A Driver is built for a molecule structure; its total cross sections at
\* the energy of the neutron are given.
InitStepWeights ==
    /\ NoPopulation
    /\ tank \in Tanks
    /\ probe \in {Probe("step_weights", [molecule_structure |-> ms, total_data |-> td]) :
                     ms \in [1..2 -> 1..MaxAtoms], td \in CrossSections(2)}

\* The mean free path and the selection ratio of one step: get_mfp(energy)
\* and get_ratio(energy), both called with the energy alone.
CallStepWeights ==
    /\ Calls("step_weights")
    /\ probe' = Return([mol_struc |-> probe.args.molecule_structure,
                        mfp |-> get_mfp(probe.args.total_data, DefaultMolecules),
                        ratio |-> get_ratio(probe.args.total_data, DefaultMolecules)])
    /\ UNCHANGED <<cpu_count, tank, neutrons, nCollisions, pc, workers, done, call, log>>

\* ------------------------------------------- the nuclide a step collides with
\* list.index(x): the position of the first element equal to x
index(s, x) == CHOOSE i \in 1..Len(s) : s[i] = x /\ \A h \in 1..(i - 1) : s[h] # x

\* Parameters.nuclei_masses
NucleiMasses == [1..2 -> {1, 16}]

\* A Driver is built for two nuclides; first is the outcome of
\* random() < get_ratio(energy).
InitSelect ==
    /\ NoPopulation
    /\ tank \in Tanks
    /\ probe \in {Probe("select", [nuclei_masses |-> ms, first |-> b]) :
                     ms \in NucleiMasses, b \in BOOLEAN}

\* The nuclide of a step is chosen by position and carried on as its mass;
\* _absorbed gets nuclei_masses.index(mass), get_CM_cosines looks the mass up
\* again with masses.index(mass).
CallSelect ==
    /\ Calls("select")
    /\ LET selected == IF probe.args.first THEN 1 ELSE 2
           mass     == probe.args.nuclei_masses[selected]
       IN  probe' = Return([selected |-> selected, mass |-> mass,
                            absorption |-> index(probe.args.nuclei_masses, mass),
                            angular |-> index(probe.args.nuclei_masses, mass)])
    /\ UNCHANGED <<cpu_count, tank, neutrons, nCollisions, pc, workers, done, call, log>>

\* --------------------------------------------------------- AngularProcessor
\* s[i] for a Python index i, 0-based, negative indices counting from the end
At(s, i) == s[(i % Len(s)) + 1]

\* the value of i the loop `for i, val in enumerate(energies): if val > E:
\* break` leaves: the first index whose breakpoint exceeds E, else the last
LoopIndex(energies, E) ==
    IF \E i \in 1..Len(energies) : energies[i] > E
    THEN (CHOOSE i \in 1..Len(energies) :
             energies[i] > E /\ \A h \in 1..(i - 1) : energies[h] <= E) - 1
    ELSE Len(energies) - 1

\* u > num / den for a uniform draw u = <<numerator, denominator>> and a
\* quotient whose denominator may be negative
Exceeds(u, num, den) ==
    IF den > 0 THEN u[1] * den > num * u[2] ELSE u[1] * den < num * u[2]

\* Mutant of distribution_index: the rows are exchanged.
distribution_indexSwapped(energies, E, u) ==
    LET i == LoopIndex(energies, E)
    IN  IF Exceeds(u, E - At(energies, i - 1), At(energies, i) - At(energies, i - 1))
        THEN i ELSE i - 1

\* AngularProcessor._distribution_index for the table of one nuclide:
\* f = (E - energies[i - 1]) / (energies[i] - energies[i - 1]);
\* return i - 1 if random() > f else i
distribution_index(energies, E, u) ==
    LET i == LoopIndex(energies, E)
    IN  IF Exceeds(u, E - At(energies, i - 1), At(energies, i) - At(energies, i - 1))
        THEN i - 1 ELSE i

\* strictly increasing breakpoints, two or three of them
Breakpoints ==
    {e \in UNION {[1..n -> 1..MaxBreak] : n \in 2..3} :
        \A i \in 1..(Len(e) - 1) : e[i] < e[i + 1]}

\* np.random.random(): a value in [0, 1)
Uniforms == {<<0, 1>>, <<1, 4>>, <<1, 2>>, <<3, 4>>}

InitDistributionIndex ==
    /\ NoPopulation
    /\ tank \in Tanks
    /\ probe \in {Probe("_distribution_index", [energies |-> e, E |-> E, u |-> u]) :
                     e \in Breakpoints, E \in 0..(MaxBreak + 1), u \in Uniforms}

CallDistributionIndex ==
    /\ Calls("_distribution_index")
    /\ probe' = Return(distribution_index(probe.args.energies, probe.args.E, probe.args.u))
    /\ UNCHANGED <<cpu_count, tank, neutrons, nCollisions, pc, workers, done, call, log>>

\* ------------------------------------------------------ rejection sampling
\* SpectrumProcessor.sample, AngularProcessor.get_CM_cosines and
\* MaxwellBoltzmann._sample share one loop: draw x and y, keep x if y <= p(x).
\* candidates x = np.random.uniform(*bounds)
SampleXs == {1, 2}

\* candidates y = np.random.uniform(0, y_max)
SampleYs == {0, 1}

\* the density p, tabulated on the candidates x
Densities == [SampleXs -> {-1, 0, 1}]

InitSample ==
    /\ NoPopulation
    /\ tank \in Tanks
    /\ probe \in {[fn |-> "sample", args |-> [density |-> p, num_samples |-> n],
                   returned |-> FALSE, result |-> [sampled_points |-> <<>>, draws |-> 0]] :
                     p \in Densities, n \in 0..2}

\* one pass of `while len(sampled_points) < num_samples`
SampleDraw ==
    /\ Calls("sample")
    /\ Len(probe.result.sampled_points) < probe.args.num_samples
    /\ probe.result.draws < MaxDraws
    /\ \E x \in SampleXs, y \in SampleYs :
         probe' = [probe EXCEPT
                     !.result.draws = @ + 1,
                     !.result.sampled_points =
                         IF y <= probe.args.density[x] THEN Append(@, x) ELSE @]
    /\ UNCHANGED <<cpu_count, tank, neutrons, nCollisions, pc, workers, done, call, log>>

\* return sampled_points
SampleReturn ==
    /\ Calls("sample")
    /\ Len(probe.result.sampled_points) >= probe.args.num_samples
    /\ probe' = [probe EXCEPT !.returned = TRUE]
    /\ UNCHANGED <<cpu_count, tank, neutrons, nCollisions, pc, workers, done, call, log>>

\* ------------------------------------------------ Measurer, called directly
\* Mutant of thermalize_positions: the position of the last thermal energy.
thermalize_positionsLast(m) ==
    LET F[i \in 0..Len(m.neutrons)] ==
            IF i = 0 THEN <<>>
            ELSE LET energies  == m.neutrons[i].energies
                     positions == m.neutrons[i].positions
                     res       == SelectSeq(energies, LAMBDA val : val < TenKT)
                 IN  IF Len(res) > 0
                     THEN Append(F[i - 1], positions[index(energies, res[Len(res)])])
                     ELSE F[i - 1]
    IN  F[Len(m.neutrons)]

\* Measurer.thermalize_positions: for each neutron, res = the energies below
\* 10 kT; if there are any, positions[energies.index(res[0])] is appended.
thermalize_positions(m) ==
    LET F[i \in 0..Len(m.neutrons)] ==
            IF i = 0 THEN <<>>
            ELSE LET energies  == m.neutrons[i].energies
                     positions == m.neutrons[i].positions
                     res       == SelectSeq(energies, LAMBDA val : val < TenKT)
                 IN  IF Len(res) > 0
                     THEN Append(F[i - 1], positions[index(energies, res[1])])
                     ELSE F[i - 1]
    IN  F[Len(m.neutrons)]

\* energy histories of one to three entries, below and above 10 kT
HistoryEnergies == SeqsUpTo({1, 2, TenKT + 1}, 3)

\* the neutron at index i with the energy history es: index-aligned
\* histories, every recorded position different
Diffused(es, i) ==
    [ positions |-> [s \in 1..Len(es) |-> <<s, i, 0>>], energies |-> es,
      direction |-> NoDirection, kinds |-> <<>>, id |-> i ]

InitThermalize ==
    /\ NoPopulation
    /\ tank \in Tanks
    /\ \E n \in 1..2 :
         probe \in {Probe("thermalize_positions",
                          [population |-> [i \in 1..n |-> Diffused(es[i], i)]]) :
                       es \in [1..n -> HistoryEnergies]}

CallThermalize ==
    /\ Calls("thermalize_positions")
    /\ probe' = Return(thermalize_positions(Measurer(probe.args.population)))
    /\ UNCHANGED <<cpu_count, tank, neutrons, nCollisions, pc, workers, done, call, log>>

UnitInit ==
    /\ NoDriver
    /\ \/ InitInside
       \/ InitThermalize
       \/ InitSample
       \/ InitDistributionIndex
       \/ InitSelect
       \/ InitStepWeights
       \/ InitCollision
       \/ InitDispatch
       \/ InitNeutrons
       \/ InitCollide
       \/ InitTravel
       \/ InitRatio
       \/ InitAbsorptionRates

UnitNext ==
    \/ CallInside
    \/ CallAbsorptionRates
    \/ CallRatio
    \/ CallTravel
    \/ CallCollide
    \/ CallNeutrons
    \/ DispatchChunks
    \/ CallCollision
    \/ CallStepWeights
    \/ CallSelect
    \/ CallDistributionIndex
    \/ SampleDraw
    \/ SampleReturn
    \/ CallThermalize

UnitSpec == UnitInit /\ [][UnitNext]_vars

\* ------------------------------------------------------------------ claims
\* the neutron worker c is working on, before and after a step of that worker
StepsNeutron(c) ==
    /\ pc = "running" /\ pc' = "running"
    /\ c \in 1..Len(workers) /\ c \in 1..Len(workers')
    /\ workers[c].j <= Len(workers[c].chunk)
    /\ workers'[c].j = workers[c].j

Before(c) == workers[c].chunk[workers[c].j]

After(c) == workers'[c].chunk[workers[c].j]

\* the step of worker c is a flight that ends outside the tank
FlightLeavesTank(c) ==
    /\ StepsNeutron(c)
    /\ Len(After(c).positions) = Len(Before(c).positions) + 1
    /\ ~Inside(tank, Position(After(c)))

HasAbsorption(n) == \E s \in 1..Len(n.kinds) : n.kinds[s] = "absorbed"

Outside(population) ==
    {i \in 1..Len(population) : ~Inside(tank, Position(population[i]))}

\* C1: after any sequence of diffuse calls that returned, every neutron of
\* the population has as many positions as energies.
C1_LengthsAgree ==
    \A i \in 1..Len(neutrons) :
        Len(neutrons[i].positions) = Len(neutrons[i].energies)

C1_Witness ==
    /\ pc = "idle"
    /\ call.outcome = "returned"
    /\ \E i \in 1..Len(neutrons) :
         Len(neutrons[i].positions) = 3 /\ Len(neutrons[i].energies) = 3

\* C2: histories are append-only: in every step the old positions and
\* energies of each neutron are prefixes of the new ones, and no neutron
\* leaves the population.
C2_AppendOnly ==
    [][ /\ Len(neutrons') = Len(neutrons)
        /\ \A i \in 1..Len(neutrons) :
             /\ IsPrefix(neutrons[i].positions, neutrons'[i].positions)
             /\ IsPrefix(neutrons[i].energies, neutrons'[i].energies) ]_vars

C2_Witness ==
    /\ pc = "idle"
    /\ call.outcome = "returned"
    /\ \E i \in 1..Len(neutrons) :
         /\ Len(call.pre[i].positions) >= 2
         /\ Len(neutrons[i].positions) > Len(call.pre[i].positions)
         /\ neutrons[i].positions[1] = <<0, 0, 0>>

\* C3 as stated: a flight that ends outside the tank ends the loop with no
\* collision: no energy is appended for that step.
C3_StopsWithoutCollision ==
    [][ \A c \in 1..Len(workers) :
          FlightLeavesTank(c) =>
            /\ After(c).energies = Before(c).energies
            /\ workers'[c].left = 0 ]_vars

\* C3 as amended: a flight that ends outside the tank is still followed by
\* the collision of that step, which appends one energy, so the lists stay
\* the same length; no further flight starts from a position outside the
\* tank, so that pair is the last one appended.
C3_CollidesThenStops ==
    [][ \A c \in 1..Len(workers) :
          /\ FlightLeavesTank(c) =>
               /\ Len(After(c).energies) = Len(Before(c).energies) + 1
               /\ Len(After(c).energies) = Len(After(c).positions)
          /\ (StepsNeutron(c) /\ ~Inside(tank, Position(Before(c)))) =>
               Histories(After(c)) = Histories(Before(c)) ]_vars

C3_Witness ==
    \E c \in 1..Len(workers) :
        /\ workers[c].j <= Len(workers[c].chunk)
        /\ workers[c].phase = "loop"
        /\ workers[c].left > 0
        /\ Len(Before(c).positions) >= 2
        /\ Len(Before(c).energies) = Len(Before(c).positions)
        /\ ~Inside(tank, Position(Before(c)))
        /\ Inside(tank, Before(c).positions[Len(Before(c).positions) - 1])

\* C4: once a neutron has undergone an absorption collision nothing is
\* appended to its history, in the rest of that call or in a later call.
C4_AbsorptionTerminal ==
    [][ /\ \A i \in 1..Len(neutrons) :
             (HasAbsorption(neutrons[i]) /\ i <= Len(neutrons')) =>
                Histories(neutrons'[i]) = Histories(neutrons[i])
        /\ \A c \in 1..Len(workers) :
             (StepsNeutron(c) /\ HasAbsorption(Before(c))) =>
                Histories(After(c)) = Histories(Before(c)) ]_vars

\* C5: a neutron whose last position is outside the tank never gets a new
\* history entry; number_escaped counts exactly the neutrons whose last
\* position is outside; so after a diffuse call of at least one step it
\* counts every neutron that started outside the tank.
C5_EscapeTerminal ==
    /\ [][ \A i \in Outside(neutrons) :
             /\ i <= Len(neutrons')
             /\ Histories(neutrons'[i]) = Histories(neutrons[i]) ]_vars
    /\ [](number_escaped(Measurer(neutrons)) = Cardinality(Outside(neutrons)))
    /\ []((pc = "idle" /\ call.outcome = "returned" /\ call.k >= 1) =>
            number_escaped(Measurer(neutrons)) >=
              Cardinality({i \in 1..Len(neutrons) :
                             ~Inside(tank, neutrons[i].positions[1])}))

C5_Witness ==
    /\ pc = "idle"
    /\ call.outcome = "returned"
    /\ call.k >= 1
    /\ Len(neutrons) >= 2
    /\ \A i \in 1..Len(neutrons) :
         /\ ~Inside(tank, neutrons[i].positions[1])
         /\ Len(neutrons[i].positions) = 1
    /\ number_escaped(Measurer(neutrons)) = Len(neutrons)

\* C6: diffuse(0) leaves every history and the collision counter as they
\* were before the call.
C6_DiffuseZeroNoOp ==
    (pc = "idle" /\ call.outcome \in {"returned", "raised"} /\ call.k = 0) =>
        /\ nCollisions = call.preN
        /\ Len(neutrons) = Len(call.pre)
        /\ \A i \in 1..Len(neutrons) :
             Histories(neutrons[i]) = Histories(call.pre[i])

C6_Witness ==
    /\ pc = "idle"
    /\ call.outcome = "returned"
    /\ call.k = 0
    /\ nCollisions >= 1
    /\ \E i \in 1..Len(neutrons) :
         Len(neutrons[i].positions) >= 2 /\ Inside(tank, Position(neutrons[i]))

\* C7: a diffuse call that returns keeps the size of the population and
\* the neutron at every index, whatever order the chunks finished in.
C7_OrderPreserved ==
    (pc = "idle" /\ call.outcome = "returned") =>
        /\ Len(neutrons) = Len(call.pre)
        /\ \A i \in 1..Len(neutrons) :
             /\ neutrons[i].id = call.pre[i].id
             /\ IsPrefix(call.pre[i].positions, neutrons[i].positions)
             /\ IsPrefix(call.pre[i].energies, neutrons[i].energies)

C7_Witness ==
    /\ pc = "idle"
    /\ call.outcome = "returned"
    /\ call.k >= 1
    /\ call.completion = <<2, 1>>
    /\ \A i \in 1..Len(neutrons) : Len(neutrons[i].positions) >= 2

\* C8: when a chunk worker raised, the diffuse call raises and the
\* population is the one held before the call.
C8_WorkerFailureAborts ==
    (pc = "idle" /\ call.workerRaised) =>
        /\ call.outcome = "raised"
        /\ neutrons = call.pre

C8_Witness ==
    /\ pc = "idle"
    /\ call.workerRaised
    /\ call.outcome = "raised"
    /\ call.k >= 1
    /\ Len(call.completion) >= 1
    /\ Len(neutrons) >= 2

\* C9: the collision counter is the sum of the arguments of the diffuse
\* calls that returned.
C9_CounterIsSumOfReturned ==
    pc = "idle" => nCollisions = log.returned

\* C10: after a single diffuse(K), K >= 1, on a fresh simulation,
\* number_absorbed is the number of neutrons whose loop ended with an
\* absorption collision.
C10_CountsAbsorbed ==
    (pc = "idle" /\ log.calls = 1 /\ call.outcome = "returned" /\ call.k >= 1) =>
        number_absorbed(Measurer(neutrons)) =
            Cardinality({i \in 1..Len(neutrons) :
                           /\ neutrons[i].kinds # <<>>
                           /\ Last(neutrons[i].kinds) = "absorbed"})

\* C11: for every tank and every position, inside(position) is true exactly
\* when the horizontal distance from the position to the center is strictly
\* less than the radius and the vertical distance to the center is strictly
\* less than half the height; a point on the wall or on an end cap is outside.
C11_InsideIsOpenCylinder ==
    Called("inside") =>
        LET position   == probe.args.position
            horizontal == (position[1] - tank.position[1]) * (position[1] - tank.position[1])
                          + (position[2] - tank.position[2]) * (position[2] - tank.position[2])
            vertical   == Abs(position[3] - tank.position[3])
        IN  /\ probe.result = TRUE <=>
                (horizontal < tank.radius * tank.radius /\ 2 * vertical < tank.height)
            /\ horizontal = tank.radius * tank.radius => probe.result = FALSE
            /\ 2 * vertical = tank.height => probe.result = FALSE

\* inside has answered for a point on the wall, between the end caps
C11_Witness ==
    /\ Called("inside")
    /\ tank.radius = 1
    /\ probe.args.position = <<tank.position[1] + 1, tank.position[2], tank.position[3]>>
    /\ probe.result = FALSE

\* every energy recorded in the histories of a population is >= 0
NonNegative(population) ==
    \A i \in 1..Len(population) :
        \A s \in 1..Len(population[i].energies) : population[i].energies[s] >= 0

\* C12: the initial energies being non-negative, every energy recorded in a
\* neutron's history is non-negative, in the stored population and in the
\* copies the workers advance, whichever branch each collision took.
C12_EnergiesNonNegative ==
    /\ NonNegative(neutrons)
    /\ \A c \in 1..Len(workers) : NonNegative(workers[c].chunk)

\* a stored neutron has undergone an elastic and then a thermal collision
C12_Witness ==
    /\ pc = "idle"
    /\ \E i \in 1..Len(neutrons) :
          /\ neutrons[i].kinds = <<"elastic", "thermal">>
          /\ Len(neutrons[i].energies) = 3

\* the quotient <<numerator, denominator>> lies in [0, 1]
InUnitInterval(q) == q[2] > 0 /\ 0 <= q[1] /\ q[1] <= q[2]

\* C13: every per-nuclide absorption rate returned by get_absorption_rates
\* lies in [0, 1], whatever positive scattering and absorption cross sections
\* the tables hold.
C13_RatesInUnitInterval ==
    Called("get_absorption_rates") =>
        \A j \in 1..Len(probe.result) : InUnitInterval(probe.result[j])

\* C14: for positive cross sections and atom counts, get_ratio, the first
\* nuclide's weighted share of the total weighted cross section, lies in
\* [0, 1].
C14_RatioInUnitInterval ==
    Called("get_ratio") => InUnitInterval(probe.result)

\* get_ratio has answered for water: two nuclides, two atoms of the first
C14_Witness ==
    /\ Called("get_ratio")
    /\ probe.args.nMolecules = <<2, 1>>
    /\ probe.result[1] < probe.result[2]

\* C15: travel appends exactly one position, the previous last position plus
\* distance times the travel direction, and leaves every earlier position and
\* the whole energies list unchanged.
C15_TravelAppendsOnePosition ==
    Called("travel") =>
        LET n == probe.args.neutron
            r == probe.result
        IN  /\ Len(r.positions) = Len(n.positions) + 1
            /\ \A i \in 1..Len(n.positions) : r.positions[i] = n.positions[i]
            /\ \A x \in 1..3 :
                  r.positions[Len(r.positions)][x] =
                     n.positions[Len(n.positions)][x] + probe.args.distance * n.direction[x]
            /\ r.energies = n.energies

\* travel has returned for a neutron with two recorded positions that differ
C15_Witness ==
    /\ Called("travel")
    /\ Len(probe.args.neutron.positions) = 2
    /\ probe.args.neutron.positions[1] # probe.args.neutron.positions[2]
    /\ Len(probe.result.positions) = 3

\* C16: collide appends exactly one energy, the previous last energy times
\* the given energy-loss fraction, and leaves every earlier energy and the
\* whole positions list unchanged.
C16_CollideAppendsOneEnergy ==
    Called("collide") =>
        LET n == probe.args.neutron
            r == probe.result
            f == probe.args.energy_loss_frac
        IN  /\ Len(r.energies) = Len(n.energies) + 1
            /\ \A i \in 1..Len(n.energies) : r.energies[i] = n.energies[i]
            /\ r.energies[Len(r.energies)] * f[2] = n.energies[Len(n.energies)] * f[1]
            /\ r.positions = n.positions

\* collide has returned for a neutron with two recorded energies that differ
C16_Witness ==
    /\ Called("collide")
    /\ Len(probe.args.neutron.energies) = 2
    /\ probe.args.neutron.energies[1] # probe.args.neutron.energies[2]
    /\ probe.args.energy_loss_frac = <<1, 2>>
    /\ Len(probe.result.energies) = 3

\* C17: Neutrons(energies, positions) on sequences of equal length n builds n
\* neutrons in input order: the neutron at index i has the energies list
\* [energies[i]] and the positions list [positions[i]].
C17_PopulationInInputOrder ==
    Called("Neutrons") =>
        /\ Len(probe.result) = Len(probe.args.energies)
        /\ \A i \in 1..Len(probe.args.energies) :
              /\ probe.result[i].energies = <<probe.args.energies[i]>>
              /\ probe.result[i].positions = <<probe.args.positions[i]>>

\* a population of three has been built from energies and positions that
\* differ between the first and the last index
C17_Witness ==
    /\ Called("Neutrons")
    /\ Len(probe.result) = 3
    /\ probe.args.energies[1] # probe.args.energies[3]
    /\ probe.args.positions[1] # probe.args.positions[3]

\* the step of worker c is a pass of the loop (flight and collision) with
\* further passes still requested after it
CollidesWithPassesLeft(c) ==
    /\ StepsNeutron(c)
    /\ Len(After(c).energies) = Len(Before(c).energies) + 1
    /\ workers[c].left > 1

\* C18: the loop ends early after a collision exactly when that collision was
\* an absorption; an elastic or thermal collision never ends it, and the
\* fraction tested for termination is the one that was applied, so a
\* collision that changed the energy does not end the loop.
C18_EndsEarlyIffAbsorbed ==
    [][\A c \in 1..Len(workers) :
          CollidesWithPassesLeft(c) =>
              /\ workers'[c].left = 0 <=> Last(After(c).kinds) = "absorbed"
              /\ workers'[c].left = 0 => Energy(After(c)) = Energy(Before(c))]_vars

\* the neutron was inside the tank before each of the k flights of the call:
\* flight m + 1 starts from the position recorded at index base + m
InsideBeforeFlights(n, base, k) ==
    \A m \in 0..(k - 1) :
        /\ base + m <= Len(n.positions)
        /\ Inside(tank, n.positions[base + m])

\* position/energy pairs the running call has appended to the neutron n
Appended(n) == Len(n.positions) - Len(call.pre[n.id].positions)

\* C19: a diffuse(k) call appends at most k position/energy pairs to each
\* neutron; when the loop of a neutron is over it has appended exactly k
\* exactly when the neutron was inside the tank before each of the k flights
\* and no collision ended the loop with passes still to run.
C19_AtMostKExactlyIfExhausted ==
    /\ \A c \in 1..Len(workers) :
          (pc = "running" /\ workers[c].phase = "loop") =>
              LET n == Current(workers[c])
              IN  /\ Appended(n) <= call.k
                  /\ Len(n.energies) - Len(call.pre[n.id].energies) = Appended(n)
                  /\ (workers[c].left = 0 \/ ~CanStep(n)) =>
                        (Appended(n) = call.k <=>
                            /\ ~workers[c].cut
                            /\ InsideBeforeFlights(n, Len(call.pre[n.id].positions), call.k))
    /\ (pc = "idle" /\ call.outcome = "returned") =>
          \A i \in 1..Len(neutrons) :
              Len(neutrons[i].positions) - Len(call.pre[i].positions) <= call.k

\* the loop of a neutron is over after the two passes of a diffuse(2) call
C19_Witness ==
    /\ pc = "running"
    /\ call.k = 2
    /\ \E c \in 1..Len(workers) :
          /\ workers[c].phase = "loop"
          /\ workers[c].left = 0
          /\ ~workers[c].cut
          /\ Appended(Current(workers[c])) = 2

\* index in the population of the j-th neutron of a chunk
Index(chunk, j) == chunk[j].id

\* C20: for n >= 1 neutrons and a budget p = cpu_count - 2 >= 1, diffuse
\* splits the population into at most p non-empty chunks; each chunk is a
\* contiguous run of the population, the first starts at the first neutron,
\* each next one starts where the previous one ended and the last ends at the
\* last neutron, so the chunks are pairwise disjoint and their concatenation
\* in order is the whole population.
C20_ChunksPartitionPopulation ==
    (Called("chunks") /\ Len(neutrons) >= 1 /\ cpu_count - 2 >= 1) =>
        LET chunks == probe.result
        IN  /\ Len(chunks) >= 1
            /\ Len(chunks) <= cpu_count - 2
            /\ \A c \in 1..Len(chunks) :
                  /\ Len(chunks[c]) >= 1
                  /\ \A j \in 1..Len(chunks[c]) :
                        /\ Index(chunks[c], j) = Index(chunks[c], 1) + j - 1
                        /\ chunks[c][j] = neutrons[Index(chunks[c], j)]
            /\ Index(chunks[1], 1) = 1
            /\ \A c \in 1..(Len(chunks) - 1) :
                  Index(chunks[c + 1], 1) = Index(chunks[c], Len(chunks[c])) + 1
            /\ Index(chunks[Len(chunks)], Len(chunks[Len(chunks)])) = Len(neutrons)

\* five neutrons have been split for four workers: three chunks, the last
\* one shorter than the others
C20_Witness ==
    /\ Called("chunks")
    /\ Len(neutrons) = 5
    /\ cpu_count = 6
    /\ Len(probe.result) = 3
    /\ Len(probe.result[3]) = 1

\* C21: the thermal energy of a thermal collision is sampled at the Driver's
\* configured temperature: the sampler the collision uses has the temperature
\* T of the Parameters, the one the threshold 10 kT is derived from.
C21_ThermalSamplerAtDriverTemperature ==
    (Called("Collision") /\ probe.result.collision.thermal /\ ~probe.result.collision.absorption) =>
        /\ probe.result.collision.mw.T = probe.args.temperature
        /\ kT(probe.result.collision.mw.T) = probe.result.sim.kT

\* the cross sections weighted by the atom counts w, summed over the nuclides
Weighted(cross_sections, w) ==
    Sum([i \in 1..Len(cross_sections) |-> w[i] * cross_sections[i]])

\* C22: the mean free path and the selection ratio of a step are computed
\* with the configured molecule structure: the weights of the per-nuclide
\* cross sections are the configured atom counts.
C22_WeightsAreConfiguredStructure ==
    Called("step_weights") =>
        LET cs == probe.args.total_data
            ms == probe.args.molecule_structure
        IN  /\ probe.result.mol_struc = ms
            /\ probe.result.mfp[1] * Weighted(cs, ms) = probe.result.mfp[2]
            /\ probe.result.ratio[1] * Weighted(cs, ms) = probe.result.ratio[2] * ms[1] * cs[1]

\* C23: the absorption rate and the angular data of a collision step are
\* those of the nuclide selected for the collision, for every pair of
\* nuclei masses, equal masses included.
C23_IndicesOfSelectedNuclide ==
    Called("select") =>
        /\ probe.result.absorption = probe.result.selected
        /\ probe.result.angular = probe.result.selected

\* C24: for strictly increasing breakpoints e[0..n-1], n >= 2, and a draw u
\* in [0, 1), _distribution_index returns an index in 0..n-1: for
\* e[k-1] <= E < e[k] the upper row k when u <= f and the lower row k - 1
\* when u > f, f = (E - e[k-1]) / (e[k] - e[k-1]); 0 for E < e[0] and n - 1
\* for E >= e[n-1], never the other end of the table.
C24_IndexWithinTable ==
    Called("_distribution_index") =>
        LET e == probe.args.energies
            n == Len(e)
            E == probe.args.E
            u == probe.args.u
        IN  /\ probe.result \in 0..(n - 1)
            /\ E < e[1] => probe.result = 0
            /\ E >= e[n] => probe.result = n - 1
            /\ \A k \in 1..(n - 1) :
                  (e[k] <= E /\ E < e[k + 1]) =>
                      probe.result =
                          IF u[1] * (e[k + 1] - e[k]) <= (E - e[k]) * u[2]
                          THEN k ELSE k - 1

\* an index has been returned for an energy below the first breakpoint of a
\* table with three rows
C24_Witness ==
    /\ Called("_distribution_index")
    /\ Len(probe.args.energies) = 3
    /\ probe.args.E < probe.args.energies[1]
    /\ probe.args.u = <<3, 4>>
    /\ probe.result = 0

\* the density is below every candidate y on the whole domain
NeverAccepts(density) ==
    \A x \in SampleXs, y \in SampleYs : ~(y <= density[x])

\* C25: a rejection sampler guards against a density that can never accept
\* a candidate: asked for samples from such a density it fails at
\* construction or call time, so it never draws a candidate in its loop.
C25_HopelessDensityNeverDraws ==
    (probe.fn = "sample" /\ NeverAccepts(probe.args.density)) =>
        probe.result.draws = 0

\* the neutron has a recorded energy below 10 kT
EverThermal(n) == \E s \in 1..Len(n.energies) : n.energies[s] < TenKT

\* the smallest index of an energy below 10 kT
FirstThermal(n) ==
    CHOOSE s \in 1..Len(n.energies) :
        /\ n.energies[s] < TenKT
        /\ \A h \in 1..(s - 1) : n.energies[h] >= TenKT

\* C26: thermalize_positions returns, in population order, exactly one
\* position for each neutron with a recorded energy below 10 kT, the position
\* at the smallest index whose energy is below 10 kT, and nothing for the
\* neutrons that never went below 10 kT.
C26_FirstThermalPositions ==
    Called("thermalize_positions") =>
        LET population == probe.args.population
            thermal    == {i \in 1..Len(population) : EverThermal(population[i])}
            rank(i)    == Cardinality({h \in thermal : h <= i})
        IN  /\ Len(probe.result) = Cardinality(thermal)
            /\ \A i \in thermal :
                  probe.result[rank(i)] =
                      population[i].positions[FirstThermal(population[i])]

\* positions have been returned for a population whose first neutron never
\* went thermal and whose second went thermal twice, at its second entry first
C26_Witness ==
    /\ Called("thermalize_positions")
    /\ Len(probe.args.population) = 2
    /\ ~EverThermal(probe.args.population[1])
    /\ probe.args.population[2].energies = <<TenKT + 1, 2, 1>>
    /\ probe.result = <<probe.args.population[2].positions[2]>>

\* what the claim compares of a final history: its length, the kind of each
\* collision, and whether it ends outside the tank
Outcome(n) ==
    [ length |-> Len(n.positions), kinds |-> n.kinds,
      escaped |-> ~Inside(tank, Position(n)) ]

\* every neutron the step loop of one call can return for the neutron n with
\* `left` passes requested, over all draws
RECURSIVE Runs(_, _)
Runs(n, left) ==
    IF left = 0 \/ ~CanStep(n) THEN {n}
    ELSE UNION { IF BreaksLoop(n, x[2], x[3], x[5])
                 THEN {Iteration(n, x[1], x[2], x[3], x[4], x[6])}
                 ELSE Runs(Iteration(n, x[1], x[2], x[3], x[4], x[6]), left - 1) :
                 x \in Dists \X BOOLEAN \X ElasticFracs \X ThermalEnergies
                       \X ThermalEnergies \X Dirs }

\* the outcomes of a single diffuse(k) on the neutron as it was constructed
SingleCallOutcomes(n, k) ==
    UNION { {Outcome(r) : r \in Runs([Neutron(n.energies[1], n.positions[1], n.id)
                                        EXCEPT !.direction = d], Iterations(k))} :
            d \in Dirs }

\* C27: splitting a run does not change its possible outcomes: after
\* diffuse(a) and diffuse(b) have both returned, the outcome of every neutron
\* is one that a single diffuse(a + b) from the same initial population can
\* produce.
C27_SplitRunIsSingleRun ==
    (pc = "idle" /\ log.calls = 2 /\ call.outcome = "returned" /\ log.returned > call.k) =>
        \A i \in 1..Len(neutrons) :
            Outcome(neutrons[i]) \in SingleCallOutcomes(neutrons[i], log.returned)

\* C28: a Measurer constructed from the simulation before a diffuse call
\* reports, after the call has returned, the population the simulation then
\* holds: positions(), energies() and number_escaped() are those of the
\* post-diffuse histories.  The Measurer holds the population object it was
\* constructed with, which is the one the call started from.
C28_MeasurerFollowsSimulation ==
    (pc = "idle" /\ call.outcome = "returned") =>
        /\ MeasuredPositions(Measurer(call.pre)) = MeasuredPositions(Measurer(neutrons))
        /\ MeasuredEnergies(Measurer(call.pre)) = MeasuredEnergies(Measurer(neutrons))
        /\ number_escaped(Measurer(call.pre)) = number_escaped(Measurer(neutrons))

\* C29: diffuse(k) computes its chunking and returns without raising for
\* every population size n >= 0 and every core count c >= 1: a diffuse call
\* raises only when one of its chunk workers raised.
C29_DispatchNeverRaises ==
    (pc = "idle" /\ call.outcome = "raised") => call.workerRaised

\* C30: when diffuse(k) aborts because a chunk worker raised, the collision
\* counter has the value it had before the call.
C30_CounterUnchangedOnAbort ==
    (pc = "idle" /\ call.outcome = "raised" /\ call.workerRaised) =>
        nCollisions = call.preN

====
